---------------------------- MODULE Spec2Model ----------------------------
(***************************************************************************)
(* Shopcarts REST service: the two tables of service/models.py (shopcart,  *)
(* product) and the request handlers of service/routes.py.                 *)
(*                                                                         *)
(* Spec     : requests handled one at a time, each handler one action.     *)
(* SpecConc : two requests in flight, each step one statement group that   *)
(*            ends in a commit (or one query), for the claims about        *)
(*            interleavings.                                               *)
(*                                                                         *)
(* routes.py calls Shopcart.find_by_id and reads/writes shopcart.id, which *)
(* models.py does not define (its key is customer_id).  Both are modelled  *)
(* as the cart's identity: find_by_id is the lookup by customer_id and     *)
(* .id is another name of customer_id.                                     *)
(***************************************************************************)
EXTENDS Integers, Sequences, FiniteSets, TLC

\* ------------------------------------------------------------------ bounds
\* Product ids in use: 1..MaxProductId
MaxProductId == 2

\* Python's None (an absent row, an id left to the store, "no value").
None == 0

\* Two customers: a cart and another cart
CustomerIds == {1, 2}
ProductIds == 1..MaxProductId
Names == {"Widget", "Gadget"}
Quantities == {2}
Prices == {999}
ContentTypes == {"application/json", "text/plain"}

VARIABLES
    shopcart,    \* table shopcart: the set of customer_id values stored
    product,     \* table product: id -> [name, quantity, price, shopcart_id]
    fkEnforced,  \* whether the storage engine enforces product.shopcart_id's FOREIGN KEY
    last,        \* the last request handled and its outcome
    req          \* SpecConc only: the requests in flight

vars == <<shopcart, product, fkEnforced, last, req>>

\* --------------------------------------------------------------- requests
\* A Product body.  missing = TRUE: a body lacking a required field.
ProductBodies ==
    [id : ProductIds \cup {None}, shopcart_id : CustomerIds, name : Names,
     price : Prices, quantity : Quantities, missing : {FALSE}]
    \cup
    [id : {None}, shopcart_id : {1}, name : {"Widget"},
     price : Prices, quantity : Quantities, missing : {TRUE}]

\* A Shopcart body: customer_id and a products list (empty, or one entry
\* carrying the body's customer_id as its shopcart_id, as serialize() emits).
ShopcartBodies ==
    [customer_id : CustomerIds, products : {<<>>}, missing : {FALSE}]
    \cup
    {[customer_id |-> b.shopcart_id, products |-> <<b>>, missing |-> FALSE] :
        b \in ProductBodies}
    \cup
    [customer_id : {1}, products : {<<>>}, missing : {TRUE}]

\* The bodies a request may carry with its Content-Type: the handlers read
\* no body before the Content-Type check.
BodiesOf(content_type, bodies) ==
    IF content_type = "application/json" THEN bodies
    ELSE {b \in bodies : b.missing}

\* What is recorded of a request: the handler, its outcome, the path's cart
\* id, the product id it touched, the id and the cart id its body carried,
\* the product ids it returned or deleted, the list it returned; gen is the id
\* the store generated in it and name the product name it filtered by.
Response(op, status, id, pid, body_id, body_cart, ids, result) ==
    [op |-> op, status |-> status, id |-> id, pid |-> pid, body_id |-> body_id,
     body_cart |-> body_cart, ids |-> ids, result |-> result,
     gen |-> None, name |-> ""]

\* ----------------------------------------------------------------- models
RECURSIVE SortedSeq(_)
SortedSeq(S) ==
    IF S = {} THEN <<>>
    ELSE LET m == CHOOSE x \in S : \A y \in S : x <= y
         IN <<m>> \o SortedSeq(S \ {m})

\* Product.find: query.get(by_id)
Product_find(products, by_id) ==
    IF by_id \in DOMAIN products THEN by_id ELSE None

\* Shopcart.find_by_customer_id: the first row with that customer_id
find_by_customer_id(carts, customer_id) ==
    IF customer_id \in carts THEN customer_id ELSE None

\* Shopcart.find_by_id, called by routes.py and absent from models.py
find_by_id(carts, id) == find_by_customer_id(carts, id)

\* Shopcart.products: the rows whose shopcart_id is the cart's key
Products_of(products, customer_id) ==
    {p \in DOMAIN products : products[p].shopcart_id = customer_id}

\* Product.filter_by_product_name: the rows whose name equals product_name
Product_filter_by_product_name(products, product_name) ==
    SortedSeq({p \in DOMAIN products : products[p].name = product_name})

\* Shopcart.filter_by_product_name: one find per selected product
Shopcart_filter_by_product_name(carts, products, product_name) ==
    LET selected_products == Product_filter_by_product_name(products, product_name)
    IN [i \in 1..Len(selected_products) |->
           find_by_customer_id(carts, products[selected_products[i]].shopcart_id)]

\* Product.deserialize: every field from the body, the id included
Product_deserialize(data) ==
    IF data.missing
    THEN [error |-> "DataValidationError", obj |-> None]
    ELSE [error |-> "",
          obj |-> [id |-> data.id, shopcart_id |-> data.shopcart_id,
                   name |-> data.name, price |-> data.price,
                   quantity |-> data.quantity]]

\* Product.create: the id is dropped so that the store generates one
Product_create(p) == [p EXCEPT !.id = None]

\* Shopcart(): a new object, in no session, with no products
NewShopcart == [customer_id |-> None, key |-> None, persistent |-> FALSE, pending |-> <<>>]

\* The object a lookup returns: the stored row, its products not loaded
LoadedShopcart(customer_id) ==
    [customer_id |-> customer_id, key |-> customer_id, persistent |-> TRUE,
     pending |-> <<>>]

\* The UPDATE of a row's key (customer_id) is rejected when the new key is
\* taken, or when product rows still reference the old one (no ON UPDATE
\* CASCADE is declared) and the engine enforces the foreign key.
KeyUpdateRejected(key, customer_id) ==
    /\ customer_id # key
    /\ \/ customer_id \in shopcart
       \/ fkEnforced /\ Products_of(product, key) # {}

\* Shopcart.deserialize: customer_id from the body, then every body product
\* deserialized and appended.  On a stored cart the first append loads
\* self.products, and the load flushes the changed customer_id first.
Shopcart_deserialize(self, data) ==
    IF data.missing \/ \E i \in 1..Len(data.products) : data.products[i].missing
    THEN [error |-> "DataValidationError", obj |-> self]
    ELSE IF /\ self.persistent
            /\ Len(data.products) > 0
            /\ KeyUpdateRejected(self.key, data.customer_id)
    THEN [error |-> "IntegrityError", obj |-> self]
    ELSE [error |-> "",
          obj |-> [self EXCEPT
                     !.customer_id = data.customer_id,
                     !.pending = self.pending \o
                                 [i \in 1..Len(data.products) |->
                                    Product_deserialize(data.products[i]).obj]]]

\* shopcart.id, read: the cart's identity
Id(self) == self.customer_id

\* shopcart.id = id
SetId(self, id) == [self EXCEPT !.customer_id = id]

\* Shopcart.create(customer_id): the key is the argument
Shopcart_create(self, customer_id) == [self EXCEPT !.customer_id = customer_id]

\* The ids the store may generate for a pending product whose id is None
GenIds(self) ==
    IF \E i \in 1..Len(self.pending) : self.pending[i].id = None
    THEN ProductIds \ DOMAIN product
    ELSE {None}

\* The pending rows with shopcart_id left as the body gave it
PendingRowsBodyCart(self, gen) ==
    [i \in 1..Len(self.pending) |->
        [self.pending[i] EXCEPT
            !.id = IF self.pending[i].id = None THEN gen ELSE self.pending[i].id]]

\* The rows a flush inserts for the products appended to a cart: the
\* relationship writes the cart's key into shopcart_id, a None id is generated.
PendingRows(self, gen) ==
    [i \in 1..Len(self.pending) |->
        [self.pending[i] EXCEPT
            !.id = IF self.pending[i].id = None THEN gen ELSE self.pending[i].id,
            !.shopcart_id = self.customer_id]]

Row(p) ==
    [name |-> p.name, quantity |-> p.quantity, price |-> p.price,
     shopcart_id |-> p.shopcart_id]

\* A dangling product.shopcart_id, rejected by an engine that enforces the key
FKViolated(carts, products) ==
    fkEnforced /\ \E p \in DOMAIN products : products[p].shopcart_id \notin carts

\* db.session.commit() of a cart object: INSERT or UPDATE of its row, INSERT
\* of its pending products.  ok = FALSE: the commit raised and rolled back.
CommitShopcart(self, gen) ==
    LET rows == PendingRows(self, gen)
        newIds == {rows[i].id : i \in 1..Len(rows)}
        carts2 == (shopcart \ {self.key}) \cup {self.customer_id}
        products2 == [p \in DOMAIN product \cup newIds |->
                        IF p \in newIds
                        THEN Row(rows[CHOOSE i \in 1..Len(rows) : rows[i].id = p])
                        ELSE product[p]]
        keyTaken == /\ (~self.persistent \/ self.customer_id # self.key)
                    /\ self.customer_id \in shopcart
        idTaken == newIds \cap DOMAIN product # {}
    IN IF keyTaken \/ idTaken \/ FKViolated(carts2, products2)
       THEN [ok |-> FALSE, carts |-> shopcart, products |-> product, ids |-> {}]
       ELSE [ok |-> TRUE, carts |-> carts2, products |-> products2, ids |-> newIds]

\* The one id of a set of at most one id, None when empty
OneOf(ids) == IF ids = {} THEN None ELSE CHOOSE x \in ids : TRUE

\* The id a body's single product carries, None when it has none
BodyProductId(data) ==
    IF Len(data.products) = 0 THEN None ELSE data.products[1].id

\* check_content_type
check_content_type(content_type) == content_type = "application/json"

\* make_response / abort: the outcome is recorded; the engine and the requests
\* in flight are no part of a handler's effect.
Respond(response) ==
    /\ last' = response
    /\ UNCHANGED <<fkEnforced, req>>

\* A request that ends without a commit, or whose commit is rolled back
UnchangedWith(response) ==
    /\ Respond(response)
    /\ UNCHANGED <<shopcart, product>>

Unchanged(op, status, id, pid) ==
    UnchangedWith(Response(op, status, id, pid, None, None, {}, <<>>))

\* --------------------------------------------------------------- handlers
\* GET /shopcarts/<id>
get_shopcarts(id) ==
    LET found == find_by_id(shopcart, id)
    IN /\ Respond(IF found = None
                  THEN Response("get_shopcarts", "400_BAD_REQUEST", id, None, None, None, {}, <<>>)
                  ELSE Response("get_shopcarts", "200_OK", id, None, None, None,
                                Products_of(product, found), <<>>))
       /\ UNCHANGED <<shopcart, product>>

\* update_shopcarts without its "shopcart.id = id"
UpdatedShopcartNotPinned(deserialized, id) == deserialized

\* update_shopcarts, after deserialize: shopcart.id = id
UpdatedShopcart(deserialized, id) == SetId(deserialized, id)

\* PUT /shopcarts/<id>
update_shopcarts(id, content_type, data) ==
    LET op == "update_shopcarts"
        bid == BodyProductId(data)
        found == find_by_id(shopcart, id)
        d == Shopcart_deserialize(LoadedShopcart(found), data)
        obj == UpdatedShopcart(d.obj, id)
    IN IF ~check_content_type(content_type)
       THEN Unchanged(op, "415_UNSUPPORTED_MEDIA_TYPE", id, None)
       ELSE IF found = None
       THEN Unchanged(op, "404_NOT_FOUND", id, None)
       ELSE IF d.error # ""
       THEN Unchanged(op, d.error, id, None)
       ELSE \E gen \in GenIds(obj) :
              LET c == CommitShopcart(obj, gen)
              IN IF ~c.ok
                 THEN Unchanged(op, "IntegrityError", id, None)
                 ELSE /\ shopcart' = c.carts
                      /\ product' = c.products
                      /\ Respond([Response(op, "200_OK", id, OneOf(c.ids), bid,
                                           data.customer_id,
                                           Products_of(c.products, obj.customer_id),
                                           <<>>) EXCEPT !.gen = gen])

\* DELETE /shopcarts/<id>: the row is deleted; its products are left to the
\* engine (passive_deletes), whose foreign key declares no ON DELETE action.
delete_shopcarts(id) ==
    LET op == "delete_shopcarts"
        found == find_by_id(shopcart, id)
    IN IF found = None
       THEN Unchanged(op, "204_NO_CONTENT", id, None)
       ELSE IF FKViolated(shopcart \ {found}, product)
       THEN Unchanged(op, "IntegrityError", id, None)
       ELSE /\ shopcart' = shopcart \ {found}
            /\ UNCHANGED product
            /\ Respond(Response(op, "204_NO_CONTENT", id, None, None, None,
                                Products_of(product, found), <<>>))

\* POST /shopcarts/<id>: the lookup is by the body's customer_id, the insert
\* by the path's id.
create_shopcarts(id, content_type, data) ==
    LET op == "create_shopcarts"
        bid == BodyProductId(data)
        d == Shopcart_deserialize(NewShopcart, data)
        found_shop_cart == find_by_id(shopcart, Id(d.obj))
        obj == Shopcart_create(d.obj, id)
    IN IF ~check_content_type(content_type)
       THEN Unchanged(op, "415_UNSUPPORTED_MEDIA_TYPE", id, None)
       ELSE IF d.error # ""
       THEN Unchanged(op, d.error, id, None)
       ELSE IF found_shop_cart # None
       THEN UnchangedWith(Response(op, "409_CONFLICT", id, None, None, data.customer_id,
                                   {}, <<>>))
       ELSE \E gen \in GenIds(obj) :
              LET c == CommitShopcart(obj, gen)
              IN IF ~c.ok
                 THEN UnchangedWith(Response(op, "IntegrityError", id, None, None,
                                             data.customer_id, {}, <<>>))
                 ELSE /\ shopcart' = c.carts
                      /\ product' = c.products
                      /\ Respond([Response(op, "201_CREATED", id, OneOf(c.ids), bid,
                                           data.customer_id,
                                           Products_of(c.products, Id(obj)),
                                           <<>>) EXCEPT !.gen = gen])

\* GET /shopcarts/<id>/products
list_products(id) ==
    LET found == find_by_id(shopcart, id)
    IN /\ Respond(IF found = None
                  THEN Response("list_products", "400_BAD_REQUEST", id, None, None, None, {}, <<>>)
                  ELSE Response("list_products", "200_OK", id, None, None, None,
                                Products_of(product, found), <<>>))
       /\ UNCHANGED <<shopcart, product>>

\* GET /shopcarts/<id>/products/<product_id>
get_products(id, product_id) ==
    LET found == Product_find(product, product_id)
    IN /\ Respond(IF found = None
                  THEN Response("get_products", "404_NOT_FOUND", None, product_id, None, None, {}, <<>>)
                  ELSE Response("get_products", "200_OK", None, product_id, None,
                                product[found].shopcart_id, {found}, <<>>))
       /\ UNCHANGED <<shopcart, product>>

\* POST /shopcarts/<id>/products: the deserialized product, its id as the
\* body gave it, is appended to the cart and the session committed.
add_products(id, content_type, data) ==
    LET op == "add_products"
        found == find_by_id(shopcart, id)
        d == Product_deserialize(data)
        obj == [LoadedShopcart(found) EXCEPT !.pending = <<d.obj>>]
    IN IF ~check_content_type(content_type)
       THEN Unchanged(op, "415_UNSUPPORTED_MEDIA_TYPE", id, None)
       ELSE IF found = None
       THEN Unchanged(op, "404_NOT_FOUND", id, None)
       ELSE IF d.error # ""
       THEN Unchanged(op, d.error, id, None)
       ELSE \E gen \in GenIds(obj) :
              LET c == CommitShopcart(obj, gen)
              IN IF ~c.ok
                 THEN Unchanged(op, "IntegrityError", id, None)
                 ELSE /\ shopcart' = c.carts
                      /\ product' = c.products
                      /\ Respond([Response(op, "201_CREATED", id, OneOf(c.ids), data.id,
                                           data.shopcart_id, c.ids, <<>>)
                                     EXCEPT !.gen = gen])

\* Product.delete: DELETE of the row, committed
Product_delete(products, id) == [p \in DOMAIN products \ {id} |-> products[p]]

\* DELETE /shopcarts/<id>/products/<product_id>
delete_products(id, product_id) ==
    LET found == Product_find(product, product_id)
    IN /\ product' = IF found = None THEN product ELSE Product_delete(product, found)
       /\ Respond(Response("delete_products", "204_NO_CONTENT", None, product_id, None, None,
                           IF found = None THEN {} ELSE {found}, <<>>))
       /\ UNCHANGED shopcart

\* PUT /shopcarts/<id>/products/<product_id>: every field from the body, then
\* the id set back to the path's.
update_products(id, product_id, content_type, data) ==
    LET op == "update_products"
        found == Product_find(product, product_id)
        d == Product_deserialize(data)
        obj == [d.obj EXCEPT !.id = product_id]
        products2 == [product EXCEPT ![found] = Row(obj)]
    IN IF ~check_content_type(content_type)
       THEN Unchanged(op, "415_UNSUPPORTED_MEDIA_TYPE", None, product_id)
       ELSE IF found = None
       THEN Unchanged(op, "404_NOT_FOUND", None, product_id)
       ELSE IF d.error # ""
       THEN Unchanged(op, d.error, None, product_id)
       ELSE IF FKViolated(shopcart, products2)
       THEN Unchanged(op, "IntegrityError", None, product_id)
       ELSE /\ product' = products2
            /\ Respond(Response(op, "200_OK", None, product_id, None, data.shopcart_id,
                                {found}, <<>>))
            /\ UNCHANGED shopcart

\* GET /shopcarts, with or without ?id=
list_shopcarts(id) ==
    /\ Respond(IF id # None /\ find_by_id(shopcart, id) = None
               THEN Response("list_shopcarts", "AttributeError", id, None, None, None, {}, <<>>)
               ELSE Response("list_shopcarts", "200_OK", id, None, None, None, {},
                             IF id # None THEN <<id>> ELSE SortedSeq(shopcart)))
    /\ UNCHANGED <<shopcart, product>>

\* The products a clear deletes, in the order of the loop
clear_loop(products, customer_id) == SortedSeq(Products_of(products, customer_id))

\* A loop that stops after its first delete
DeleteFirst(products, todo) ==
    IF todo = <<>> THEN products ELSE Product_delete(products, Head(todo))

RECURSIVE DeleteEach(_, _)
DeleteEach(products, todo) ==
    IF todo = <<>> THEN products
    ELSE DeleteEach(Product_delete(products, Head(todo)), Tail(todo))

\* PUT /shopcarts/<id>/clear
clear_shopcarts(id, content_type) ==
    LET op == "clear_shopcarts"
        found == find_by_id(shopcart, id)
        todo == clear_loop(product, found)
    IN IF ~check_content_type(content_type)
       THEN Unchanged(op, "415_UNSUPPORTED_MEDIA_TYPE", id, None)
       ELSE IF found = None
       THEN Unchanged(op, "404_NOT_FOUND", id, None)
       ELSE /\ product' = DeleteEach(product, todo)
            /\ Respond(Response(op, "200_OK", id, None, None, None,
                                {todo[i] : i \in 1..Len(todo)}, <<>>))
            /\ UNCHANGED shopcart

\* GET /shopcarts/products/<product_name>: every cart found is serialized
filter_shopcarts_by_product_name(product_name) ==
    LET shopcarts == Shopcart_filter_by_product_name(shopcart, product, product_name)
    IN /\ Respond(IF \E i \in 1..Len(shopcarts) : shopcarts[i] = None
                  THEN Response("filter_shopcarts_by_product_name", "AttributeError",
                                None, None, None, None, {}, <<>>)
                  ELSE [Response("filter_shopcarts_by_product_name", "200_OK",
                                 None, None, None, None,
                                 {p \in DOMAIN product : product[p].name = product_name},
                                 shopcarts) EXCEPT !.name = product_name])
       /\ UNCHANGED <<shopcart, product>>

\* ---------------------------------------------------------- specification
Requests == {1, 2}

\* A request in flight: the handler, where it stands (pc), the path's id, the
\* body's customer_id, what its lookup found, the products its loop has
\* still to delete, the products it loaded (a clear) or saw under deletion by
\* a clear in progress (a read), the products it returned, its outcome.
Request(pc, op, id, cid, found, todo, snapshot, ids, status) ==
    [pc |-> pc, op |-> op, id |-> id, cid |-> cid, found |-> found, todo |-> todo,
     snapshot |-> snapshot, ids |-> ids, status |-> status]

NoRequests == [r \in Requests |-> Request("idle", "", None, None, None, <<>>, {}, {}, "")]

Init ==
    /\ shopcart = {}
    /\ product = << >>
    /\ fkEnforced \in BOOLEAN
    /\ last = Response("init", "", None, None, None, None, {}, <<>>)
    /\ req = << >>

Next ==
    \/ \E id \in CustomerIds : get_shopcarts(id)
    \/ \E id \in CustomerIds, ct \in ContentTypes :
          \E data \in BodiesOf(ct, ShopcartBodies) :
          update_shopcarts(id, ct, data)
    \/ \E id \in CustomerIds : delete_shopcarts(id)
    \/ \E id \in CustomerIds, ct \in ContentTypes :
          \E data \in BodiesOf(ct, ShopcartBodies) :
          create_shopcarts(id, ct, data)
    \/ \E id \in CustomerIds : list_products(id)
    \/ \E id \in CustomerIds, product_id \in ProductIds : get_products(id, product_id)
    \/ \E id \in CustomerIds, ct \in ContentTypes :
          \E data \in BodiesOf(ct, ProductBodies) :
          add_products(id, ct, data)
    \/ \E id \in CustomerIds, product_id \in ProductIds : delete_products(id, product_id)
    \/ \E id \in CustomerIds, product_id \in ProductIds, ct \in ContentTypes :
          \E data \in BodiesOf(ct, ProductBodies) : update_products(id, product_id, ct, data)
    \/ \E id \in CustomerIds \cup {None} : list_shopcarts(id)
    \/ \E id \in CustomerIds, ct \in ContentTypes : clear_shopcarts(id, ct)
    \/ \E product_name \in Names : filter_shopcarts_by_product_name(product_name)

Spec == Init /\ [][Next]_vars


\* ------------------------------------------------- requests in flight
\* The steps of two requests handled at once, each with a session of its
\* own.  A step is one query, or the statements up to and including one
\* db.session.commit(); what is committed is read by every later step.
Free(r) == req[r].pc \in {"idle", "done"}

\* The bodies sent here: a cart with no products, a product without an id
ConcShopcartBodies == {b \in ShopcartBodies : ~b.missing /\ Len(b.products) = 0}
ConcProductBodies == {b \in ProductBodies : ~b.missing /\ b.id = None}

\* create_shopcarts, up to the lookup: 409 when the cart is found
create_lookup(r, id, data) ==
    LET d == Shopcart_deserialize(NewShopcart, data)
        found_shop_cart == find_by_id(shopcart, Id(d.obj))
    IN /\ Free(r)
       /\ req' = [req EXCEPT ![r] =
                    IF found_shop_cart # None
                    THEN Request("done", "create_shopcarts", id, data.customer_id,
                                 found_shop_cart, <<>>, {}, {}, "409_CONFLICT")
                    ELSE Request("create", "create_shopcarts", id, data.customer_id,
                                 None, <<>>, {}, {}, "")]
       /\ UNCHANGED <<shopcart, product, fkEnforced, last>>

\* create_shopcarts, from shopcart.create(id): the INSERT and its commit
create_insert(r) ==
    LET obj == Shopcart_create([NewShopcart EXCEPT !.customer_id = req[r].cid],
                               req[r].id)
        c == CommitShopcart(obj, None)
    IN /\ req[r].pc = "create"
       /\ shopcart' = c.carts
       /\ req' = [req EXCEPT ![r].pc = "done",
                             ![r].status = IF c.ok THEN "201_CREATED"
                                           ELSE "IntegrityError"]
       /\ UNCHANGED <<product, fkEnforced, last>>

\* add_products: one lookup and one commit
add_products_step(r, id, data) ==
    LET found == find_by_id(shopcart, id)
        obj == [LoadedShopcart(found) EXCEPT !.pending = <<Product_deserialize(data).obj>>]
    IN /\ Free(r)
       /\ found # None
       /\ \E gen \in GenIds(obj) :
            LET c == CommitShopcart(obj, gen)
            IN /\ c.ok
               /\ product' = c.products
               /\ req' = [req EXCEPT ![r] =
                            Request("done", "add_products", id, None, found, <<>>, {},
                                    c.ids, "201_CREATED")]
       /\ UNCHANGED <<shopcart, fkEnforced, last>>

\* clear_shopcarts, up to the loop: the lookup, and shopcart.products loaded
clear_begin(r, id) ==
    LET found == find_by_id(shopcart, id)
        todo == clear_loop(product, found)
    IN /\ Free(r)
       /\ req' = [req EXCEPT ![r] =
                    IF found = None
                    THEN Request("done", "clear_shopcarts", id, None, None, <<>>, {}, {},
                                 "404_NOT_FOUND")
                    ELSE Request("clear", "clear_shopcarts", id, None, found, todo,
                                 {todo[i] : i \in 1..Len(todo)}, {}, "")]
       /\ UNCHANGED <<shopcart, product, fkEnforced, last>>

\* clear_shopcarts, one turn of the loop: product.delete() commits
clear_delete(r) ==
    /\ req[r].pc = "clear"
    /\ req[r].todo # <<>>
    /\ product' = IF Product_find(product, Head(req[r].todo)) = None THEN product
                  ELSE Product_delete(product, Head(req[r].todo))
    /\ req' = [req EXCEPT ![r].todo = Tail(req[r].todo)]
    /\ UNCHANGED <<shopcart, fkEnforced, last>>

\* clear_shopcarts, after the loop: shopcart.products = [] and the commit.
\* The products another request added meanwhile leave the collection, which
\* sets their shopcart_id to NULL: the column is NOT NULL and the commit fails.
clear_finish(r) ==
    /\ req[r].pc = "clear"
    /\ req[r].todo = <<>>
    /\ req' = [req EXCEPT ![r].pc = "done",
                          ![r].status = IF Products_of(product, req[r].found) = {}
                                        THEN "200_OK" ELSE "IntegrityError"]
    /\ UNCHANGED <<shopcart, product, fkEnforced, last>>

\* get_shopcarts: one query of what is committed
get_shopcarts_step(r, id) ==
    LET found == find_by_id(shopcart, id)
        clearing == UNION {req[q].snapshot :
                             q \in {q \in Requests : req[q].pc = "clear" /\ req[q].id = id}}
    IN /\ Free(r)
       /\ req' = [req EXCEPT ![r] =
                    IF found = None
                    THEN Request("done", "get_shopcarts", id, None, None, <<>>, {}, {},
                                 "400_BAD_REQUEST")
                    ELSE Request("done", "get_shopcarts", id, None, found, <<>>, clearing,
                                 Products_of(product, found), "200_OK")]
       /\ UNCHANGED <<shopcart, product, fkEnforced, last>>

NextConc ==
    \/ \E r \in Requests, id \in CustomerIds, data \in ConcShopcartBodies :
          create_lookup(r, id, data)
    \/ \E r \in Requests : create_insert(r)
    \/ \E r \in Requests, id \in CustomerIds, data \in ConcProductBodies :
          add_products_step(r, id, data)
    \/ \E r \in Requests, id \in CustomerIds : clear_begin(r, id)
    \/ \E r \in Requests : clear_delete(r)
    \/ \E r \in Requests : clear_finish(r)
    \/ \E r \in Requests, id \in CustomerIds : get_shopcarts_step(r, id)

InitConc ==
    /\ shopcart = {}
    /\ product = << >>
    /\ fkEnforced \in BOOLEAN
    /\ last = Response("init", "", None, None, None, None, {}, <<>>)
    /\ req = NoRequests

SpecConc == InitConc /\ [][NextConc]_vars


\* ------------------------------------------------------------------ claims
\* C1: deleting a Shopcart removes all of its Products: once delete-cart has
\* been handled for cart C, C is absent and no Product row has shopcart_id = C.
DeleteRemovesProducts ==
    last.op = "delete_shopcarts" =>
        /\ find_by_id(shopcart, last.id) = None
        /\ \A p \in DOMAIN product : product[p].shopcart_id # last.id

\* C2: a well-formed create-cart request whose path customer_id is already
\* stored ends in a conflict and changes neither the carts nor their products.
CreateExistingConflicts ==
    [][(/\ last'.op = "create_shopcarts"
        /\ last'.status \notin {"415_UNSUPPORTED_MEDIA_TYPE", "DataValidationError"}
        /\ last'.id \in shopcart)
       => (/\ last'.status = "409_CONFLICT"
           /\ shopcart' = shopcart
           /\ product' = product)]_vars

\* C3: of two create-cart requests for the same customer_id of which at least
\* one found no cart, exactly one ends created and the other in a conflict,
\* and the cart exists.
ConcurrentCreateOneWins ==
    \A r, q \in Requests :
        (/\ r # q
         /\ req[r].op = "create_shopcarts" /\ req[q].op = "create_shopcarts"
         /\ req[r].pc = "done" /\ req[q].pc = "done"
         /\ req[r].id = req[q].id
         /\ req[r].cid = req[r].id /\ req[q].cid = req[q].id
         /\ (req[r].found = None \/ req[q].found = None))
        => /\ {req[r].status, req[q].status} = {"201_CREATED", "409_CONFLICT"}
           /\ req[r].id \in shopcart

\* C4: referential integrity: every stored Product's shopcart_id is the
\* customer_id of a stored Shopcart.
ReferentialIntegrity ==
    \A p \in DOMAIN product : product[p].shopcart_id \in shopcart

FilterReturnsDistinctCarts ==
    (last.op = "filter_shopcarts_by_product_name" /\ last.status = "200_OK") =>
        /\ \A i, j \in 1..Len(last.result) : i # j => last.result[i] # last.result[j]
        /\ {last.result[i] : i \in 1..Len(last.result)}
             = {c \in shopcart :
                  \E p \in DOMAIN product : /\ product[p].shopcart_id = c
                                            /\ product[p].name = last.name}

\* C7: the id of a Product that add-product has stored is the one the store
\* generated in that request, whatever id the body carried.
ProductIdIsGenerated ==
    (last.op = "add_products" /\ last.status = "201_CREATED")
    => (last.gen # None /\ last.pid = last.gen)

\* C8: after a Product was added to cart C, C is found, its products include
\* the Product, and the Product's shopcart_id is C.
AddedProductBelongsToCart ==
    (last.op = "add_products" /\ last.status = "201_CREATED") =>
        /\ find_by_id(shopcart, last.id) # None
        /\ Product_find(product, last.pid) # None
        /\ last.pid \in Products_of(product, find_by_id(shopcart, last.id))
        /\ product[last.pid].shopcart_id = last.id

\* C8, witness: a Product was added whose body carried another cart's id.
AddCarriedOtherShopcartId ==
    /\ last.op = "add_products"
    /\ last.status = "201_CREATED"
    /\ last.body_cart # last.id

\* C9: a clear of a stored cart C deletes every Product of C and nothing
\* else: C stays, no Product of C is left, every other Product is as it was.
ClearEmptiesOnlyTheCart ==
    [][(last'.op = "clear_shopcarts" /\ last'.status = "200_OK")
       => (/\ shopcart' = shopcart
           /\ find_by_id(shopcart', last'.id) # None
           /\ Products_of(product', last'.id) = {}
           /\ DOMAIN product' = DOMAIN product \ Products_of(product, last'.id)
           /\ \A p \in DOMAIN product' : product'[p] = product[p])]_vars

\* C9, witness: a clear has deleted two or more Products and the cart is found.
ClearedSeveralProducts ==
    /\ last.op = "clear_shopcarts"
    /\ last.status = "200_OK"
    /\ Cardinality(last.ids) >= 2
    /\ find_by_id(shopcart, last.id) # None
    /\ Products_of(product, last.id) = {}

\* C10: no read sees a cart partly cleared: of the Products a clear in
\* progress loaded, a read of that cart returns all or none.
NoPartialClearObserved ==
    \A r \in Requests :
        (req[r].op = "get_shopcarts" /\ req[r].status = "200_OK") =>
            \/ req[r].snapshot \cap req[r].ids = {}
            \/ req[r].snapshot \subseteq req[r].ids

====
